---------------------------- MODULE Spec2Model ----------------------------
(***************************************************************************)
(* rkvr: staged removal / backup of files into timestamped batches, the    *)
(* retention sweep over a store, and recovery of a batch (src/src/main.rs).*)
(*                                                                         *)
(* A path is a sequence of components, the first being Root when the path  *)
(* is absolute.  A component (a file name) is a sequence of its            *)
(* dot-separated segments: "logs.tar.gz" is <<"logs","tar","gz">>.         *)
(* The filesystem fs maps every existing path to its node.                 *)
(***************************************************************************)
EXTENDS Integers, Sequences, FiniteSets, TLC

VARIABLES
    fs,      \* the filesystem: existing path -> node
    now,     \* wall clock, in seconds
    cfg,     \* rmrf.cfg: [sudo, keep]
    pc,      \* position of the running invocation
    inv,     \* the running invocation: [cmd, targets, ts]
    cats,    \* result of categorize_paths: [directories, groups]
    idx,     \* loop index (group_index, dir_index, index into ts_dirs)
    rcv,     \* locals of recover for the current batch
    swp,     \* entries cleanup still has to look at
    err,     \* the error the invocation ended with
    units,   \* history: the units this invocation started to build
    snap,    \* history: fs when the invocation started
    hist     \* history: the invocations that ended

vars == <<fs, now, cfg, pc, inv, cats, idx, rcv, swp, err, units, snap, hist>>

---------------------------------------------------------------------------
(* Bounds of the model *)

MaxTargets == 2
MaxRuns == 2
TsGap == 100000
MaxWideFiles == 11
MaxSweeps == 2
SweepSlack == 100

(* Program constants *)

GroupStride == 1000
DirOffset == 10000
DirStride == 1000
DaySecs == 86400
DefaultKeep == 30

Me == 1000
Other == 0

---------------------------------------------------------------------------
(* std::path *)

Root == <<"/">>

SeqToSet(s) == {s[i] : i \in 1..Len(s)}

is_absolute(p) == Len(p) > 0 /\ p[1] = Root

has_parent(p) == Len(p) > 0 /\ p # <<Root>>

parent(p) == SubSeq(p, 1, Len(p) - 1)

file_name(p) == p[Len(p)]

join(a, b) == IF is_absolute(b) THEN b ELSE a \o b

starts_with(p, pre) ==
    /\ Len(pre) <= Len(p)
    /\ SubSeq(p, 1, Len(pre)) = pre

strip_prefix(p, pre) == SubSeq(p, Len(pre) + 1, Len(p))

(* Path::extension: the part after the last dot of the file name; a name   *)
(* with no dot, or whose only dot leads it, has none.                      *)
has_extension(name) == Len(name) > 1 /\ name[1] # ""

extension(name) == name[Len(name)]

to_lowercase(s) ==
    CASE s = "GZ" -> "gz"
      [] s = "TAR" -> "tar"
      [] s = "ZIP" -> "zip"
      [] OTHER -> s

ArchiveExts == {"tar", "gz", "tgz", "xz", "zip", "7z"}

is_archive_mut(p) == FALSE

is_archive(p) ==
    /\ has_extension(file_name(p))
    /\ to_lowercase(extension(file_name(p))) \in ArchiveExts

(* format!("{}.tar.gz", name) *)
TarGzName(name) == name \o <<"tar", "gz">>

MetadataYml == <<"metadata", "yml">>

(* timestamp.to_string(): the batch directory's name *)
BatchName(id) == <<ToString(id)>>

---------------------------------------------------------------------------
(* The filesystem *)

NoData == [tag |-> "none"]
Raw(v) == [tag |-> "raw", v |-> v]
LinkTo(p) == [tag |-> "link", to |-> p]

Dir(uid, t) == [kind |-> "dir", uid |-> uid, mtime |-> t, data |-> NoData]
File(uid, t, data) == [kind |-> "file", uid |-> uid, mtime |-> t, data |-> data]
Link(uid, t, to) == [kind |-> "link", uid |-> uid, mtime |-> t, data |-> LinkTo(to)]

exists(f, p) == p \in DOMAIN f

(* Follow a symbolic link at the last component (fs::metadata, is_dir and  *)
(* canonicalize all do); the model's links point at non-links.             *)
follow(f, p) ==
    IF exists(f, p) /\ f[p].kind = "link" THEN f[p].data.to ELSE p

is_dir(f, p) == exists(f, follow(f, p)) /\ f[follow(f, p)].kind = "dir"

Under(f, p) == {q \in DOMAIN f : starts_with(q, p)}

Children(f, p) == {q \in DOMAIN f : Len(q) = Len(p) + 1 /\ starts_with(q, p)}

Touch(f, d, t) ==
    IF exists(f, d) /\ f[d].kind = "dir"
    THEN [f EXCEPT ![d].mtime = t]
    ELSE f

(* Create or overwrite the entry p.  Creating an entry changes the         *)
(* directory's mtime, overwriting one does not.                            *)
Put(f, p, node, t) ==
    LET g == [q \in DOMAIN f \cup {p} |-> IF q = p THEN node ELSE f[q]]
    IN  IF exists(f, p) THEN g ELSE Touch(g, parent(p), t)

RemoveTree(f, p, t) ==
    Touch([q \in DOMAIN f \ Under(f, p) |-> f[q]], parent(p), t)

(* Whether the invoking user may create or delete entries of directory d. *)
Writable(f, d) == exists(f, d) /\ f[d].kind = "dir" /\ f[d].uid = Me

---------------------------------------------------------------------------
(* The machine the program runs on *)

W == <<Root, <<"w">>>>
Logs == W \o <<<<"logs">>>>
ATxt == Logs \o <<<<"a", "txt">>>>
LogsTgz == Logs \o <<<<"logs", "tar", "gz">>>>
BZip == Logs \o <<<<"b", "ZIP">>>>
Proj == W \o <<<<"proj">>>>
Zips == W \o <<<<"zips">>>>
XZip == Zips \o <<<<"x", "zip">>>>
MRs == Proj \o <<<<"m", "rs">>>>
Lnk == W \o <<<<"lnk">>>>
O == <<Root, <<"o">>>>
RTxt == O \o <<<<"r", "txt">>>>
Nope == W \o <<<<"nope", "txt">>>>

(* rmrf_path and bkup_path of rmrf.cfg *)
rmrf_path == <<Root, <<"rmrf">>>>
bkup_path == <<Root, <<"bkup">>>>

(* env::current_dir() *)
current_cwd == W

InitFs ==
    (<<Root>> :> Dir(Other, 0))
    @@ (W :> Dir(Me, 0))
    @@ (Logs :> Dir(Me, 0))
    @@ (ATxt :> File(Me, 0, Raw("a")))
    @@ (LogsTgz :> File(Me, 0, Raw("z")))
    @@ (BZip :> File(Me, 0, Raw("b")))
    @@ (Proj :> Dir(Me, 0))
    @@ (MRs :> File(Me, 0, Raw("m")))
    @@ (Zips :> Dir(Me, 0))
    @@ (XZip :> File(Me, 0, Raw("x")))
    @@ (Lnk :> Link(Me, 0, ATxt))
    @@ (O :> Dir(Other, 0))
    @@ (RTxt :> File(Other, 0, Raw("r")))
    @@ (rmrf_path :> Dir(Me, 0))
    @@ (bkup_path :> Dir(Me, 0))

(* What the command line can name: absolute paths, a path relative to the  *)
(* current directory, a directory of compressed files, a symbolic link, a  *)
(* path that does not exist, the backup store itself.                      *)
TargetArgs ==
    {ATxt, LogsTgz, BZip, <<<<"proj">>>>, Zips, RTxt, Lnk, Nope, bkup_path}

SeqsUpTo(S, n) == UNION {[1..k -> S] : k \in 0..n}


NoErr == [kind |-> "none"]
NoCats == [directories |-> <<>>, groups |-> <<>>]
NoRcv == [ts_dir |-> <<>>]
NoInv == [cmd |-> "none", targets |-> <<>>, ts |-> 0, at |-> 0]

ArchiveCmds == {"bkup", "rmrf", "bkup_rmrf"}

(* main: the store, remove and keep arguments of each archive call;       *)
(* "default" is the command line with targets and no subcommand.          *)
StoreOf_mut(cmd) == IF cmd = "rmrf" THEN rmrf_path ELSE bkup_path

StoreOf(cmd) == IF cmd \in {"rmrf", "default"} THEN rmrf_path ELSE bkup_path

RemoveOf(cmd) == cmd \in {"rmrf", "default", "bkup_rmrf"}

HasKeep(cmd) == cmd \in {"rmrf", "default"}

Init ==
    /\ fs = InitFs
    /\ now = 0
    /\ cfg \in [sudo : BOOLEAN, keep : {DefaultKeep}]
    /\ pc = "idle"
    /\ inv = NoInv
    /\ cats = NoCats
    /\ idx = 0
    /\ rcv = NoRcv
    /\ swp = {}
    /\ err = NoErr
    /\ units = <<>>
    /\ snap = InitFs
    /\ hist = <<>>

---------------------------------------------------------------------------
(* fs::canonicalize: absolute, symbolic links resolved, must exist *)

canonicalize(f, p) ==
    LET abs == join(current_cwd, p)
        res == follow(f, abs)
    IN  IF exists(f, res)
        THEN [ok |-> TRUE, path |-> res]
        ELSE [ok |-> FALSE, path |-> p]

(* One pass of the loop of categorize_paths over targets[i..]; the map of  *)
(* file groups is kept in insertion order, as a sequence of [key, files].  *)
group_key(canonical_path) ==
    LET relative_path ==
            IF starts_with(canonical_path, current_cwd)
            THEN strip_prefix(canonical_path, current_cwd)
            ELSE canonical_path
    IN  join(current_cwd, parent(relative_path))

InsertFile(map, key, path) ==
    IF \E k \in 1..Len(map) : map[k].key = key
    THEN [k \in 1..Len(map) |->
            IF map[k].key = key
            THEN [map[k] EXCEPT !.files = Append(@, path)]
            ELSE map[k]]
    ELSE Append(map, [key |-> key, files |-> <<path>>])

RECURSIVE categorize_from(_, _, _, _, _)
categorize_from(f, targets, i, directories, map) ==
    IF i > Len(targets)
    THEN [ok |-> TRUE, directories |-> directories, map |-> map, target |-> <<>>]
    ELSE LET c == canonicalize(f, targets[i])
         IN  IF ~c.ok
             THEN [ok |-> FALSE, directories |-> directories, map |-> map,
                   target |-> targets[i]]
             ELSE IF is_dir(f, c.path)
             THEN categorize_from(f, targets, i + 1, Append(directories, c.path), map)
             ELSE categorize_from(f, targets, i + 1, directories,
                                  InsertFile(map, group_key(c.path), c.path))

categorize_paths(f, targets) == categorize_from(f, targets, 1, <<>>, <<>>)

(* HashMap::into_iter yields the groups in an order the program does not   *)
(* control: the insertion order rotated, and possibly reversed.            *)
HashOrders(n) ==
    IF n = 0 THEN {<<>>}
    ELSE {[i \in 1..n |-> ((i - 1 + k) % n) + 1] : k \in 0..(n - 1)}
         \cup {[i \in 1..n |-> ((n - i + k) % n) + 1] : k \in 0..(n - 1)}

---------------------------------------------------------------------------
(* Child processes and file contents *)

(* eza --tree <targets>: the listing stored in the contents field *)
Listing(f, targets) ==
    {q \in DOMAIN f : \E i \in 1..Len(targets) : starts_with(q, targets[i])}

(* serde_yaml::to_string(&Metadata { cwd, targets, contents }) *)
Yaml(cwd, targets, contents) ==
    [tag |-> "yaml", cwd |-> cwd, targets |-> targets, contents |-> contents]

(* tar -czf <tarball> -C cwd rels...: every entry at or below a named one, *)
(* under its path relative to cwd; a symbolic link is stored as a link.    *)
TarMembers(f, cwd, rels) ==
    LET srcs == {q \in DOMAIN f :
                    \E i \in 1..Len(rels) : starts_with(q, join(cwd, rels[i]))}
    IN  [r \in {strip_prefix(q, cwd) : q \in srcs} |-> f[join(cwd, r)]]

TarGz(f, cwd, rels) == [tag |-> "tar", members |-> TarMembers(f, cwd, rels)]

(* What a tar that exits non-zero may leave at the tarball's path. *)
Truncated == [tag |-> "raw", v |-> "truncated"]

(* fs::create_dir_all *)
create_dir_all(f, p, t) ==
    LET missing == {k \in 1..Len(p) : ~exists(f, SubSeq(p, 1, k))}
        g == [q \in DOMAIN f \cup {SubSeq(p, 1, k) : k \in missing} |->
                IF exists(f, q) THEN f[q] ELSE Dir(Me, t)]
    IN  IF missing = {} THEN f
        ELSE LET top == CHOOSE k \in missing : \A j \in missing : k <= j
             IN  Touch(g, SubSeq(p, 1, top - 1), t)

---------------------------------------------------------------------------
(* archive: the identifiers and the working directory of each unit *)

group_timestamp(timestamp, group_index) == timestamp + (group_index * GroupStride)

dir_timestamp(timestamp, dir_index) == timestamp + DirOffset + (dir_index * DirStride)

GroupBase == join(StoreOf(inv.cmd), <<BatchName(group_timestamp(inv.ts, idx))>>)

DirBase == join(StoreOf(inv.cmd), <<BatchName(dir_timestamp(inv.ts, idx))>>)

Group == cats.groups[idx + 1]

Directory == cats.directories[idx + 1]

group_cwd_mut(group) == current_cwd

group_cwd(group) ==
    IF has_parent(group[1]) THEN parent(group[1]) ELSE current_cwd

dir_cwd(directory) ==
    IF has_parent(directory) THEN parent(directory) ELSE current_cwd

(* create_metadata: target_names *)
target_names(targets) == [i \in 1..Len(targets) |-> file_name(targets[i])]

create_metadata(f, base, cwd, targets, t) ==
    Put(f, join(base, <<MetadataYml>>),
        File(Me, t, Yaml(cwd, target_names(targets), Listing(f, targets))), t)

(* The position after the units from group i on, and then directory j on,  *)
(* are done: the next unit, remove_targets, cleanup, or the end.           *)
PosTail(cmd) ==
    IF RemoveOf(cmd) THEN <<"remove", 0>>
    ELSE IF HasKeep(cmd) THEN <<"cleanup", 0>>
    ELSE <<"done", 0>>

PosDir(c, cmd, j) ==
    IF j < Len(c.directories) THEN <<"d_mkdir", j>> ELSE PosTail(cmd)

PosGroup_mut(c, cmd, i) ==
    IF i < Len(c.groups) THEN <<"g_mkdir", i>> ELSE PosTail(cmd)

PosGroup(c, cmd, i) ==
    IF i < Len(c.groups) THEN <<"g_mkdir", i>> ELSE PosDir(c, cmd, 0)

Record(ok, e, u) ==
    [cmd |-> inv.cmd, targets |-> inv.targets, ts |-> inv.ts, ok |-> ok,
     err |-> e, units |-> u, pre |-> snap, at |-> now]

(* The invocation ends with error e: every error is returned with `?` up   *)
(* to main, which exits non-zero.                                          *)
Fail(e, u) ==
    /\ pc' = "failed"
    /\ err' = e
    /\ units' = u
    /\ UNCHANGED idx
    /\ hist' = Append(hist, Record(FALSE, e, u))

Goto(pos, u) ==
    /\ units' = u
    /\ IF pos[1] = "done"
       THEN /\ pc' = "done"
            /\ hist' = Append(hist, Record(TRUE, NoErr, u))
            /\ UNCHANGED <<idx, err>>
       ELSE /\ pc' = pos[1]
            /\ idx' = pos[2]
            /\ UNCHANGED <<hist, err>>

SetUnit(u, k, field, v) == [u EXCEPT ![k][field] = v]

---------------------------------------------------------------------------
(* main: one invocation of an archiving subcommand *)

(* Time that passes between two invocations, in seconds *)
Elapsed == {1}

NextTs == (Len(hist) + 1) * TsGap

StartArchive ==
    /\ pc = "idle"
    /\ \E d \in Elapsed : now' = now + d
    /\ \E cmd \in ArchiveCmds, targets \in SeqsUpTo(TargetArgs, MaxTargets) :
          inv' = [cmd |-> cmd, targets |-> targets, ts |-> NextTs, at |-> now']
    /\ fs' = create_dir_all(create_dir_all(fs, rmrf_path, now'), bkup_path, now')
    /\ snap' = fs'
    /\ pc' = "categorize"
    /\ idx' = 0
    /\ cats' = NoCats
    /\ rcv' = NoRcv
    /\ swp' = {}
    /\ err' = NoErr
    /\ units' = <<>>
    /\ UNCHANGED <<cfg, hist>>

Categorize ==
    /\ pc = "categorize"
    /\ LET r == categorize_paths(fs, inv.targets)
       IN  IF ~r.ok
           THEN /\ Fail([kind |-> "not_found", path |-> r.target], units)
                /\ UNCHANGED cats
           ELSE \E o \in HashOrders(Len(r.map)) :
                   /\ cats' = [directories |-> r.directories,
                               groups |-> [i \in 1..Len(r.map) |-> r.map[o[i]].files]]
                   /\ Goto(PosGroup(cats', inv.cmd, 0), units)
    /\ UNCHANGED <<fs, now, cfg, inv, rcv, swp, snap>>

NewUnit(kind, base, cwd, members) ==
    [kind |-> kind, base |-> base, cwd |-> cwd, members |-> members, built |-> FALSE]

G_Mkdir ==
    /\ pc = "g_mkdir"
    /\ fs' = create_dir_all(fs, GroupBase, now)
    /\ units' = Append(units, NewUnit("group", GroupBase, group_cwd(Group), Group))
    /\ pc' = "g_meta"
    /\ UNCHANGED <<now, cfg, inv, cats, idx, rcv, swp, err, snap, hist>>

G_Meta ==
    /\ pc = "g_meta"
    /\ \/ /\ fs' = create_metadata(fs, GroupBase, group_cwd(Group), Group, now)
          /\ pc' = "g_build"
          /\ UNCHANGED <<idx, err, units, hist>>
       \/ /\ Fail([kind |-> "eza_not_found"], units)
          /\ UNCHANGED fs
    /\ UNCHANGED <<now, cfg, inv, cats, rcv, swp, snap>>

(* copy_files: each file in turn; failAt is the file whose `sudo cp -a`    *)
(* exits non-zero (0: none does).                                          *)
RECURSIVE copy_from(_, _, _, _, _, _, _)
copy_from(f, base, loose, i, sudo, failAt, t) ==
    IF i > Len(loose) THEN [ok |-> TRUE, fs |-> f, err |-> NoErr]
    ELSE LET src == loose[i]
             dest == join(base, <<file_name(src)>>)
         IN  IF ~exists(f, follow(f, src))
             THEN [ok |-> FALSE, fs |-> f, err |-> [kind |-> "io", path |-> src]]
             ELSE IF f[follow(f, src)].uid = Me
             THEN IF exists(f, base) /\ f[base].kind = "dir"
                  THEN copy_from(Put(f, dest, File(Me, t, f[follow(f, src)].data), t),
                                 base, loose, i + 1, sudo, failAt, t)
                  ELSE [ok |-> FALSE, fs |-> f, err |-> [kind |-> "io", path |-> dest]]
             ELSE IF ~sudo
             THEN [ok |-> FALSE, fs |-> f,
                   err |-> [kind |-> "privilege_denied", path |-> src]]
             ELSE IF failAt = i \/ ~(exists(f, base) /\ f[base].kind = "dir")
             THEN [ok |-> FALSE, fs |-> f, err |-> [kind |-> "cp_failed", path |-> src]]
             ELSE copy_from(Put(f, dest, f[src], t), base, loose, i + 1, sudo, failAt, t)

copy_files(f, base, loose, sudo, failAt, t) ==
    copy_from(f, base, loose, 1, sudo, failAt, t)

IsArchivePath(p) == is_archive(p)
NotArchivePath(p) == ~is_archive(p)

(* archive_group: (bundle, loose) = partition(|path| !is_archive(path)) *)
bundle_of(group) == SelectSeq(group, NotArchivePath)
loose_of(group) == SelectSeq(group, IsArchivePath)

group_need_sudo(f, group) == \E i \in 1..Len(group) : f[group[i]].uid # Me

G_Build ==
    /\ pc = "g_build"
    /\ LET need_sudo == group_need_sudo(fs, Group)
       IN  IF need_sudo /\ ~cfg.sudo
           THEN /\ Fail([kind |-> "privilege_denied", path |-> Group[1]], units)
                /\ UNCHANGED fs
           ELSE \E failAt \in 0..Len(loose_of(Group)) :
                   LET r == copy_files(fs, GroupBase, loose_of(Group), need_sudo, failAt, now)
                   IN  /\ fs' = r.fs
                       /\ IF ~r.ok THEN Fail(r.err, units)
                          ELSE IF bundle_of(Group) # <<>>
                          THEN /\ pc' = "g_tar"
                               /\ UNCHANGED <<idx, err, units, hist>>
                          ELSE Goto(PosGroup(cats, inv.cmd, idx + 1),
                                    SetUnit(units, Len(units), "built", TRUE))
    /\ UNCHANGED <<now, cfg, inv, cats, rcv, swp, snap>>

(* tar_gz_files and create_tar_command: the paths handed to tar *)
relative_target_mut(p, cwd) == p

relative_target(p, cwd) ==
    IF starts_with(p, cwd) THEN strip_prefix(p, cwd) ELSE <<file_name(p)>>

relative_targets(group, cwd) ==
    [i \in 1..Len(group) |-> relative_target(group[i], cwd)]

group_tarball(base, bundle) ==
    join(base, <<TarGzName(file_name(parent(bundle[1])))>>)

TarOwner(need_sudo) == IF need_sudo THEN Other ELSE Me

G_Tar ==
    /\ pc = "g_tar"
    /\ LET bundle == bundle_of(Group)
           cwd == group_cwd(Group)
           need_sudo == group_need_sudo(fs, Group)
       IN  IF ~has_parent(parent(bundle[1]))
           THEN /\ Fail([kind |-> "no_parent_name", path |-> bundle[1]], units)
                /\ UNCHANGED fs
           ELSE \/ /\ fs' = Put(fs, group_tarball(GroupBase, bundle),
                                File(TarOwner(need_sudo), now,
                                     TarGz(fs, cwd, relative_targets(bundle, cwd))), now)
                   /\ Goto(PosGroup(cats, inv.cmd, idx + 1),
                           SetUnit(units, Len(units), "built", TRUE))
                \/ /\ \E partial \in BOOLEAN :
                         fs' = IF partial
                               THEN Put(fs, group_tarball(GroupBase, bundle),
                                        File(TarOwner(need_sudo), now, Truncated), now)
                               ELSE fs
                   /\ Fail([kind |-> "tar_failed",
                            path |-> group_tarball(GroupBase, bundle)], units)
    /\ UNCHANGED <<now, cfg, inv, cats, rcv, swp, snap>>

---------------------------------------------------------------------------
(* archive: the loop over the directories *)

D_Mkdir ==
    /\ pc = "d_mkdir"
    /\ fs' = create_dir_all(fs, DirBase, now)
    /\ units' = Append(units, NewUnit("dir", DirBase, dir_cwd(Directory), <<Directory>>))
    /\ pc' = "d_meta"
    /\ UNCHANGED <<now, cfg, inv, cats, idx, rcv, swp, err, snap, hist>>

D_Meta ==
    /\ pc = "d_meta"
    /\ \/ /\ fs' = create_metadata(fs, DirBase, dir_cwd(Directory), <<Directory>>, now)
          /\ pc' = "d_build"
          /\ UNCHANGED <<idx, err, units, hist>>
       \/ /\ Fail([kind |-> "eza_not_found"], units)
          /\ UNCHANGED fs
    /\ UNCHANGED <<now, cfg, inv, cats, rcv, swp, snap>>

dir_tarball(base, target) == join(base, <<TarGzName(file_name(target))>>)

(* archive_directory *)
D_Build ==
    /\ pc = "d_build"
    /\ LET target == Directory
           cwd == dir_cwd(Directory)
           need_sudo == fs[target].uid # Me
       IN  IF need_sudo /\ ~cfg.sudo
           THEN /\ Fail([kind |-> "privilege_denied", path |-> target], units)
                /\ UNCHANGED fs
           ELSE IF ~has_parent(target)
           THEN /\ Fail([kind |-> "no_dir_name", path |-> target], units)
                /\ UNCHANGED fs
           ELSE \/ /\ fs' = Put(fs, dir_tarball(DirBase, target),
                                File(TarOwner(need_sudo), now,
                                     TarGz(fs, cwd, <<relative_target(target, cwd)>>)), now)
                   /\ Goto(PosDir(cats, inv.cmd, idx + 1),
                           SetUnit(units, Len(units), "built", TRUE))
                \/ /\ \E partial \in BOOLEAN :
                         fs' = IF partial
                               THEN Put(fs, dir_tarball(DirBase, target),
                                        File(TarOwner(need_sudo), now, Truncated), now)
                               ELSE fs
                   /\ Fail([kind |-> "tar_failed",
                            path |-> dir_tarball(DirBase, target)], units)
    /\ UNCHANGED <<now, cfg, inv, cats, rcv, swp, snap>>

---------------------------------------------------------------------------
(* fs::remove_file and fs::remove_dir_all, run as the invoking user *)

remove_file(f, p, t) ==
    IF ~exists(f, p)
    THEN [ok |-> FALSE, fs |-> f, err |-> [kind |-> "not_found", path |-> p]]
    ELSE IF f[p].kind = "dir" \/ ~Writable(f, parent(p))
    THEN [ok |-> FALSE, fs |-> f, err |-> [kind |-> "io", path |-> p]]
    ELSE [ok |-> TRUE, fs |-> RemoveTree(f, p, t), err |-> NoErr]

(* A symbolic link is removed itself.  The entries of a directory that the *)
(* invoking user may write go first, the directory itself last; an entry   *)
(* is unlinked by who may write the directory that holds it.               *)
remove_dir_all(f, p, t) ==
    IF ~exists(f, p)
    THEN [ok |-> FALSE, fs |-> f, err |-> [kind |-> "not_found", path |-> p]]
    ELSE IF f[p].kind # "dir"
    THEN remove_file(f, p, t)
    ELSE LET inner == {q \in Under(f, p) : f[q].kind = "dir"}
         IN  IF \E q \in inner : f[q].uid # Me /\ Children(f, q) # {}
             THEN [ok |-> FALSE, fs |-> f, err |-> [kind |-> "io", path |-> p]]
             ELSE IF ~Writable(f, parent(p))
             THEN [ok |-> FALSE,
                   fs |-> Touch([q \in (DOMAIN f \ Under(f, p)) \cup {p} |-> f[q]], p, t),
                   err |-> [kind |-> "io", path |-> p]]
             ELSE [ok |-> TRUE, fs |-> RemoveTree(f, p, t), err |-> NoErr]

RECURSIVE remove_from(_, _, _, _)
remove_from(f, targets, i, t) ==
    IF i > Len(targets) THEN [ok |-> TRUE, fs |-> f, err |-> NoErr]
    ELSE LET target == join(current_cwd, targets[i])
             r == IF is_dir(f, target)
                  THEN remove_dir_all(f, target, t)
                  ELSE remove_file(f, target, t)
         IN  IF r.ok THEN remove_from(r.fs, targets, i + 1, t) ELSE r

remove_targets(f, targets, t) == remove_from(f, targets, 1, t)

PosKeep(cmd) == IF HasKeep(cmd) THEN <<"cleanup", 0>> ELSE <<"done", 0>>

Remove ==
    /\ pc = "remove"
    /\ LET r == remove_targets(fs, inv.targets, now)
       IN  /\ fs' = r.fs
           /\ IF r.ok THEN Goto(PosKeep(inv.cmd), units) ELSE Fail(r.err, units)
    /\ UNCHANGED <<now, cfg, inv, cats, rcv, swp, snap>>

---------------------------------------------------------------------------
(* cleanup: the retention sweep over the store *)

delete_threshold(days) == DaySecs * days

Expired_mut(f, p, t, days) ==
    /\ t >= f[follow(f, p)].mtime
    /\ t - f[follow(f, p)].mtime >= DaySecs * days

Expired_lazy(f, p, t, days) ==
    /\ hist # <<>>
    /\ t >= f[follow(f, p)].mtime
    /\ t - f[follow(f, p)].mtime > DaySecs * days

Expired(f, p, t, days) ==
    /\ t >= f[follow(f, p)].mtime
    /\ t - f[follow(f, p)].mtime > delete_threshold(days)

(* Seconds the clock has moved on, when cleanup reads it, since the        *)
(* invocation wrote its batches: none within one tick of the clock.        *)
SinceStart == {0, 1}

C_Start ==
    /\ pc = "cleanup"
    /\ \E d \in SinceStart : now' = now + d
    /\ IF ~is_dir(fs, StoreOf(inv.cmd))
       THEN /\ Fail([kind |-> "io", path |-> StoreOf(inv.cmd)], units)
            /\ UNCHANGED swp
       ELSE /\ swp' = Children(fs, StoreOf(inv.cmd))
            /\ Goto(IF swp' = {} THEN <<"done", 0>> ELSE <<"c_entry", 0>>, units)
    /\ UNCHANGED <<fs, cfg, inv, cats, rcv, snap>>

(* remove_directory_with_sudo and remove_file_with_sudo; rmOk is whether   *)
(* `sudo rm` exits zero.                                                   *)
remove_with_sudo(f, p, sudo, rmOk, t) ==
    IF sudo /\ f[follow(f, p)].uid # Me
    THEN IF rmOk
         THEN [ok |-> TRUE, fs |-> RemoveTree(f, p, t), err |-> NoErr]
         ELSE [ok |-> FALSE, fs |-> f, err |-> [kind |-> "rm_failed", path |-> p]]
    ELSE IF is_dir(f, p) THEN remove_dir_all(f, p, t) ELSE remove_file(f, p, t)

C_Entry ==
    /\ pc = "c_entry"
    /\ \E path \in swp :
          IF ~exists(fs, follow(fs, path))
          THEN /\ Fail([kind |-> "io", path |-> path], units)
               /\ UNCHANGED <<fs, swp>>
          ELSE IF ~Expired(fs, path, now, cfg.keep)
          THEN /\ swp' = swp \ {path}
               /\ Goto(IF swp' = {} THEN <<"done", 0>> ELSE <<"c_entry", 0>>, units)
               /\ UNCHANGED fs
          ELSE \E rmOk \in BOOLEAN :
                  LET r == remove_with_sudo(fs, path, cfg.sudo, rmOk, now)
                  IN  /\ fs' = r.fs
                      /\ IF r.ok
                         THEN /\ swp' = swp \ {path}
                              /\ Goto(IF swp' = {} THEN <<"done", 0>>
                                      ELSE <<"c_entry", 0>>, units)
                         ELSE /\ Fail(r.err, units)
                              /\ UNCHANGED swp
    /\ UNCHANGED <<now, cfg, inv, cats, rcv, snap>>

---------------------------------------------------------------------------
(* recover *)

(* What `rcvr` can be given: the name of a batch of the remove store, the  *)
(* name or the absolute path of a batch of the backup store, a name that   *)
(* is no batch.                                                            *)
RcvrArgs(f) ==
    {<<file_name(b)>> : b \in Children(f, rmrf_path)}
    \cup {<<file_name(b)>> : b \in Children(f, bkup_path)}
    \cup Children(f, bkup_path)
    \cup {<<BatchName(1)>>}

RPos_mut(r) ==
    IF r.to_extract # {} THEN <<"r_extract", idx>> ELSE <<"r_remove", idx>>

RPos(r) ==
    IF r.to_extract # {} THEN <<"r_extract", idx>>
    ELSE IF r.to_copy # {} THEN <<"r_copy", idx>>
    ELSE <<"r_remove", idx>>

RPosNext(i) ==
    IF i < Len(inv.targets) THEN <<"r_open", i>> ELSE <<"done", 0>>

StartRecover ==
    /\ pc \in {"done", "failed"}
    /\ Len(hist) < MaxRuns
    /\ \E d \in Elapsed : now' = now + d
    /\ fs' = create_dir_all(create_dir_all(fs, rmrf_path, now'), bkup_path, now')
    /\ snap' = fs'
    /\ \E ts_dirs \in SeqsUpTo(RcvrArgs(fs), MaxTargets) :
          /\ inv' = [cmd |-> "rcvr", targets |-> ts_dirs, ts |-> NextTs, at |-> now']
          /\ IF ts_dirs = <<>>
             THEN /\ pc' = "done"
                  /\ hist' = Append(hist, [cmd |-> "rcvr", targets |-> ts_dirs,
                                           ts |-> NextTs, ok |-> TRUE, err |-> NoErr,
                                           units |-> <<>>, pre |-> snap',
                                           at |-> now'])
             ELSE /\ pc' = "r_open"
                  /\ UNCHANGED hist
    /\ idx' = 0
    /\ cats' = NoCats
    /\ rcv' = NoRcv
    /\ swp' = {}
    /\ err' = NoErr
    /\ units' = <<>>
    /\ UNCHANGED cfg

ts_path_of(ts) == IF is_absolute(ts) THEN ts ELSE join(rmrf_path, ts)

(* serde_yaml::from_reader::<Metadata> *)
ParsesAsMetadata(data) == data.tag = "yaml"

(* The two lists recover partitions the entries of the batch into. *)
BatchEntries(f, ts_dir) ==
    {q \in Children(f, ts_dir) : file_name(q) # MetadataYml}

to_copy_mut(f, ts_dir, originals) == {}

to_copy_of(f, ts_dir, originals) ==
    {q \in BatchEntries(f, ts_dir) :
        \E i \in 1..Len(originals) : originals[i] = file_name(q)}

to_extract_of(f, ts_dir, originals) ==
    BatchEntries(f, ts_dir) \ to_copy_of(f, ts_dir, originals)

(* Locate the batch, load metadata.yml, list and partition the entries. *)
R_Open ==
    /\ pc = "r_open"
    /\ LET c == canonicalize(fs, ts_path_of(inv.targets[idx + 1]))
           meta_path == join(c.path, <<MetadataYml>>)
       IN  IF ~c.ok
           THEN /\ Fail([kind |-> "canonicalizing", path |-> inv.targets[idx + 1]], units)
                /\ UNCHANGED rcv
           ELSE IF ~(exists(fs, meta_path) /\ fs[follow(fs, meta_path)].kind = "file")
           THEN /\ Fail([kind |-> "opening_metadata", path |-> meta_path], units)
                /\ UNCHANGED rcv
           ELSE IF ~ParsesAsMetadata(fs[follow(fs, meta_path)].data)
           THEN /\ Fail([kind |-> "parsing_metadata", path |-> meta_path], units)
                /\ UNCHANGED rcv
           ELSE LET meta == fs[follow(fs, meta_path)].data
                IN  /\ rcv' = [ts_dir |-> c.path, cwd |-> meta.cwd,
                               originals |-> meta.targets,
                               to_copy |-> to_copy_of(fs, c.path, meta.targets),
                               to_extract |-> to_extract_of(fs, c.path, meta.targets)]
                    /\ Goto(RPos(rcv'), units)
    /\ UNCHANGED <<fs, now, cfg, inv, cats, swp, snap>>

(* tar x: the members `done` of the bundle written below restore_to, with  *)
(* the recorded owner under --same-owner and the extracting user otherwise.*)
Unpack(f, members, done, restore_to, same_owner, t) ==
    LET dests == {join(restore_to, r) : r \in done}
        g == [q \in DOMAIN f \cup dests |->
                IF q \in dests
                THEN LET n == members[strip_prefix(q, restore_to)]
                     IN  IF same_owner THEN n ELSE [n EXCEPT !.uid = Me]
                ELSE f[q]]
    IN  IF dests \subseteq DOMAIN f THEN g ELSE Touch(g, restore_to, t)

(* The parts of a bundle a tar that stops early can have written: with a   *)
(* member, the members above it.                                           *)
Prefixes(members) ==
    {s \in SUBSET DOMAIN members :
        \A r \in s : \A k \in 1..(Len(r) - 1) : SubSeq(r, 1, k) \in s}

(* extract_bundle; tarOk is whether tar exits zero, done what it wrote. *)
extract_bundle(f, bundle, restore_to, sudo, tarOk, done, t) ==
    LET node == f[follow(f, bundle)]
        elevated == node.uid # Me
        readable == node.kind = "file" /\ node.data.tag = "tar"
        target_ok == is_dir(f, restore_to) /\ (elevated \/ Writable(f, restore_to))
    IN  IF elevated /\ ~sudo
        THEN [ok |-> FALSE, fs |-> f,
              err |-> [kind |-> "privilege_denied", path |-> bundle]]
        ELSE IF ~readable \/ ~target_ok
        THEN [ok |-> FALSE, fs |-> f, err |-> [kind |-> "tar_failed", path |-> bundle]]
        ELSE IF ~tarOk
        THEN [ok |-> FALSE,
              fs |-> Unpack(f, node.data.members, done, restore_to, elevated, t),
              err |-> [kind |-> "tar_failed", path |-> bundle]]
        ELSE [ok |-> TRUE,
              fs |-> Unpack(f, node.data.members, DOMAIN node.data.members,
                            restore_to, elevated, t),
              err |-> NoErr]

BundleMembers(f, bundle) ==
    IF f[follow(f, bundle)].data.tag = "tar"
    THEN f[follow(f, bundle)].data.members
    ELSE <<>>

R_Extract ==
    /\ pc = "r_extract"
    /\ \E bundle \in rcv.to_extract, tarOk \in BOOLEAN :
       \E done \in IF tarOk THEN {{}} ELSE Prefixes(BundleMembers(fs, bundle)) :
          LET r == extract_bundle(fs, bundle, rcv.cwd, cfg.sudo, tarOk, done, now)
          IN  /\ fs' = r.fs
              /\ IF r.ok
                 THEN /\ rcv' = [rcv EXCEPT !.to_extract = @ \ {bundle}]
                      /\ Goto(RPos(rcv'), units)
                 ELSE /\ Fail(r.err, units)
                      /\ UNCHANGED rcv
    /\ UNCHANGED <<now, cfg, inv, cats, swp, snap>>

R_Copy ==
    /\ pc = "r_copy"
    /\ \E src \in rcv.to_copy, failAt \in 0..1 :
          LET r == copy_files(fs, rcv.cwd, <<src>>, cfg.sudo, failAt, now)
          IN  /\ fs' = r.fs
              /\ IF r.ok
                 THEN /\ rcv' = [rcv EXCEPT !.to_copy = @ \ {src}]
                      /\ Goto(RPos(rcv'), units)
                 ELSE /\ Fail(r.err, units)
                      /\ UNCHANGED rcv
    /\ UNCHANGED <<now, cfg, inv, cats, swp, snap>>

(* fs::remove_dir_all(&ts_dir), then the next of ts_dirs *)
R_Remove ==
    /\ pc = "r_remove"
    /\ LET r == remove_dir_all(fs, rcv.ts_dir, now)
       IN  /\ fs' = r.fs
           /\ IF r.ok THEN Goto(RPosNext(idx + 1), units) ELSE Fail(r.err, units)
    /\ UNCHANGED <<now, cfg, inv, cats, rcv, swp, snap>>

ArchiveNext ==
    \/ Categorize
    \/ G_Mkdir
    \/ G_Meta
    \/ G_Build
    \/ G_Tar
    \/ D_Mkdir
    \/ D_Meta
    \/ D_Build
    \/ Remove
    \/ C_Start
    \/ C_Entry

RecoverNext ==
    \/ R_Open
    \/ R_Extract
    \/ R_Copy
    \/ R_Remove

Next ==
    \/ StartArchive
    \/ ArchiveNext
    \/ StartRecover
    \/ RecoverNext

(* An archive invocation on a machine whose stores are empty, followed by  *)
(* recoveries.                                                             *)
Spec == Init /\ [][Next]_vars

(* The archive invocation alone. *)
SpecArchive == Init /\ [][StartArchive \/ ArchiveNext]_vars

---------------------------------------------------------------------------
(* A working directory with many sibling directories: /w/p.0 ... each with *)
(* one file f.txt, next to the directory /w/proj.                          *)

WideDir(i) == W \o <<<<"p", ToString(i)>>>>

WideFile(i) == WideDir(i) \o <<<<"f", "txt">>>>

WideFs ==
    [q \in {WideDir(i) : i \in 0..(MaxWideFiles - 1)} |-> Dir(Me, 0)]
    @@ [q \in {WideFile(i) : i \in 0..(MaxWideFiles - 1)} |-> File(Me, 0, Raw("f"))]
    @@ InitFs

(* rkvr bkup|bkup-rmrf p.0/f.txt ... p.(n-1)/f.txt [proj] *)
WideCmds == {"bkup", "bkup_rmrf"}

WideLines ==
    {[i \in 1..n |-> WideFile(i - 1)] \o d :
        n \in 0..MaxWideFiles, d \in {<<>>, <<Proj>>}}

InitWide ==
    /\ fs = WideFs
    /\ now = 0
    /\ cfg \in [sudo : BOOLEAN, keep : {DefaultKeep}]
    /\ pc = "idle"
    /\ inv = NoInv
    /\ cats = NoCats
    /\ idx = 0
    /\ rcv = NoRcv
    /\ swp = {}
    /\ err = NoErr
    /\ units = <<>>
    /\ snap = WideFs
    /\ hist = <<>>

StartWide ==
    /\ pc = "idle"
    /\ \E d \in Elapsed : now' = now + d
    /\ \E cmd \in WideCmds, targets \in WideLines :
          inv' = [cmd |-> cmd, targets |-> targets, ts |-> NextTs, at |-> now']
    /\ fs' = create_dir_all(create_dir_all(fs, rmrf_path, now'), bkup_path, now')
    /\ snap' = fs'
    /\ pc' = "categorize"
    /\ idx' = 0
    /\ cats' = NoCats
    /\ rcv' = NoRcv
    /\ swp' = {}
    /\ err' = NoErr
    /\ units' = <<>>
    /\ UNCHANGED <<cfg, hist>>

WideNext ==
    \/ StartWide
    \/ Categorize
    \/ G_Mkdir
    \/ G_Meta
    \/ G_Build
    \/ G_Tar
    \/ D_Mkdir
    \/ D_Meta
    \/ D_Build
    \/ Remove

(* One backup invocation over many parent directories. *)
SpecWide == InitWide /\ [][WideNext]_vars

---------------------------------------------------------------------------
(* A remove store that holds batches of earlier days: the retention sweep  *)
(* of `rkvr rmrf`.                                                         *)

(* The clock when the machine is first looked at: SweepSlack seconds more  *)
(* than the default retention.                                             *)
SweepNow == (DaySecs * DefaultKeep) + SweepSlack

OldB == rmrf_path \o <<<<"10">>>>
EdgeB == rmrf_path \o <<<<"20">>>>
NewB == rmrf_path \o <<<<"30">>>>
OthB == rmrf_path \o <<<<"40">>>>
OthE == rmrf_path \o <<<<"50">>>>
FutB == rmrf_path \o <<<<"60">>>>

Bundle(b) == b \o <<<<"t", "tar", "gz">>>>

(* OldB is older than the default retention, EdgeB exactly as old, NewB of *)
(* this very second, FutB has a modification time ahead of the clock; OthB *)
(* and OthE are old and belong to another user, OthE is empty.             *)
SweepFs ==
    (OldB :> Dir(Me, 0))
    @@ (Bundle(OldB) :> File(Me, 0, Raw("o")))
    @@ (EdgeB :> Dir(Me, SweepSlack))
    @@ (Bundle(EdgeB) :> File(Me, SweepSlack, Raw("e")))
    @@ (NewB :> Dir(Me, SweepNow))
    @@ (Bundle(NewB) :> File(Me, SweepNow, Raw("n")))
    @@ (OthB :> Dir(Other, 0))
    @@ (Bundle(OthB) :> File(Other, 0, Raw("r")))
    @@ (OthE :> Dir(Other, 0))
    @@ (FutB :> Dir(Me, SweepNow + SweepSlack))
    @@ InitFs

(* rkvr rmrf, with no target or with one *)
SweepLines == {<<>>, <<ATxt>>}

(* The subcommand, or none *)
SweepCmds == {"rmrf", "default"}

(* Seconds between two invocations; none when one follows the other at     *)
(* once.                                                                   *)
SweepElapsed == {0, 1}

InitSweep ==
    /\ fs = SweepFs
    /\ now = SweepNow
    /\ cfg \in [sudo : BOOLEAN, keep : {0, DefaultKeep}]
    /\ pc = "idle"
    /\ inv = NoInv
    /\ cats = NoCats
    /\ idx = 0
    /\ rcv = NoRcv
    /\ swp = {}
    /\ err = NoErr
    /\ units = <<>>
    /\ snap = SweepFs
    /\ hist = <<>>

SweepInvoke(cmds) ==
    /\ \E d \in SweepElapsed : now' = now + d
    /\ \E cmd \in cmds, targets \in SweepLines :
          inv' = [cmd |-> cmd, targets |-> targets, ts |-> NextTs, at |-> now']
    /\ fs' = create_dir_all(create_dir_all(fs, rmrf_path, now'), bkup_path, now')
    /\ snap' = fs'
    /\ pc' = "categorize"
    /\ idx' = 0
    /\ cats' = NoCats
    /\ rcv' = NoRcv
    /\ swp' = {}
    /\ err' = NoErr
    /\ units' = <<>>
    /\ UNCHANGED <<cfg, hist>>

StartSweep ==
    /\ \/ pc = "idle"
       \/ pc \in {"done", "failed"} /\ Len(hist) < MaxSweeps
    /\ SweepInvoke({"rmrf"})

SweepNext ==
    \/ StartSweep
    \/ Categorize
    \/ G_Mkdir
    \/ G_Meta
    \/ G_Build
    \/ G_Tar
    \/ Remove
    \/ C_Start
    \/ C_Entry

(* Invocations of `rkvr rmrf` over a store with batches of several ages.   *)
SpecSweep == InitSweep /\ [][SweepNext]_vars

---------------------------------------------------------------------------
(* A second invocation running at the same time against the same store *)

(* Nanoseconds by which the other invocation started later *)
PeerLag == {1, GroupStride}

(* Groups the other invocation archives *)
MaxPeerGroups == 1

(* Where the other invocation runs and what it archives *)
PeerCwd == <<Root, <<"peer">>>>
PeerFile == PeerCwd \o <<<<"f", "txt">>>>

PeerBase(lag, i) ==
    join(StoreOf(inv.cmd), <<BatchName(group_timestamp(inv.ts + lag, i))>>)

(* The other invocation starts its group i: create_dir_all and             *)
(* create_metadata at the identifier its own timestamp gives.              *)
Peer ==
    /\ pc \notin {"idle", "done", "failed"}
    /\ \E lag \in PeerLag, i \in 0..(MaxPeerGroups - 1) :
          fs' = create_metadata(create_dir_all(fs, PeerBase(lag, i), now),
                                PeerBase(lag, i), PeerCwd, <<PeerFile>>, now)
    /\ UNCHANGED <<now, cfg, pc, inv, cats, idx, rcv, swp, err, units, snap, hist>>

SpecPeers == Init /\ [][StartArchive \/ ArchiveNext \/ Peer]_vars

---------------------------------------------------------------------------
(* One invocation over the same store, with the subcommand or without *)

StartOnce ==
    /\ pc = "idle"
    /\ SweepInvoke(SweepCmds)

OnceNext ==
    \/ StartOnce
    \/ Categorize
    \/ G_Mkdir
    \/ G_Meta
    \/ G_Build
    \/ G_Tar
    \/ Remove
    \/ C_Start
    \/ C_Entry

SpecOnce == InitSweep /\ [][OnceNext]_vars

---------------------------------------------------------------------------
(* Properties *)

IsArchiveRun == inv.cmd \in ArchiveCmds

MetaPath(base) == join(base, <<MetadataYml>>)

HasMeta(f, base) ==
    /\ exists(f, MetaPath(base))
    /\ f[MetaPath(base)].kind = "file"
    /\ ParsesAsMetadata(f[MetaPath(base)].data)

(* The paths the targets of the running invocation resolved to when it     *)
(* started.                                                                *)
CanonTargets ==
    {canonicalize(snap, inv.targets[i]).path :
        i \in {j \in 1..Len(inv.targets) : canonicalize(snap, inv.targets[j]).ok}}

RestoredEntry(f, e, cwd, originals) ==
    IF \E i \in 1..Len(originals) : originals[i] = file_name(e)
    THEN /\ exists(f, join(cwd, <<file_name(e)>>))
         /\ f[join(cwd, <<file_name(e)>>)].data = f[e].data
    ELSE /\ f[e].data.tag = "tar"
         /\ \A r \in DOMAIN f[e].data.members :
               /\ exists(f, join(cwd, r))
               /\ f[join(cwd, r)].kind = f[e].data.members[r].kind
               /\ f[join(cwd, r)].data = f[e].data.members[r].data

InBatch(p, store) == Len(p) > Len(store) /\ starts_with(p, store)

StoreChanged ==
    \E p \in DOMAIN fs :
        /\ InBatch(p, rmrf_path) \/ InBatch(p, bkup_path)
        /\ p \notin DOMAIN fs' \/ fs'[p] # fs[p]

(* C9: a step of recover deletes or changes an entry of a batch only as    *)
(* the removal of the batch directory, taken after its metadata.yml was    *)
(* loaded and when every entry of the batch is restored below the recorded *)
(* cwd; every other step of recover, the failing ones included, leaves     *)
(* every batch directory and every file in it as it was.                   *)
C9_BatchDeletedOnlyWhenRestored ==
    [][(inv.cmd = "rcvr" /\ StoreChanged) =>
          /\ pc = "r_remove"
          /\ HasMeta(fs, rcv.ts_dir)
          /\ rcv.cwd = fs[MetaPath(rcv.ts_dir)].data.cwd
          /\ \A e \in BatchEntries(fs, rcv.ts_dir) :
                RestoredEntry(fs, e, rcv.cwd, fs[MetaPath(rcv.ts_dir)].data.targets)
          /\ \A p \in DOMAIN fs :
                (p \notin DOMAIN fs' \/ fs'[p] # fs[p]) =>
                    (starts_with(p, rcv.ts_dir) \/ p = parent(rcv.ts_dir))]_vars

(* A recovery that ended well after deleting a batch that held a copied    *)
(* archive file and a bundle.                                              *)
C9_Witness ==
    /\ inv.cmd = "rcvr"
    /\ pc = "done"
    /\ \E i \in 1..Len(inv.targets) :
          LET b == ts_path_of(inv.targets[i])
          IN  /\ exists(snap, b)
              /\ ~exists(fs, b)
              /\ \E e1, e2 \in BatchEntries(snap, b) :
                    /\ is_archive(e1)
                    /\ snap[e2].data.tag = "tar"
                    /\ e1 # e2

---------------------------------------------------------------------------
(* Statements the code does not meet *)

SameContent(f, g, p) ==
    /\ exists(g, p)
    /\ g[p].kind = f[p].kind
    /\ g[p].data = f[p].data

(* The entries at and below the targets of command line `targets` in f. *)
TargetTrees(f, targets) ==
    {q \in DOMAIN f :
        \E i \in 1..Len(targets) : starts_with(q, join(current_cwd, targets[i]))}

NoLinkTargets(f, targets) ==
    \A i \in 1..Len(targets) :
        exists(f, join(current_cwd, targets[i]))
            => f[join(current_cwd, targets[i])].kind # "link"

(* C1: when an archive-with-removal of files and directories has ended     *)
(* well and a recovery that lists every batch it made has ended well, each *)
(* target and everything below it is back at its path with the kind and    *)
(* content it had before the archive, and no batch of the archive exists.  *)
C1_RoundTrip ==
    (/\ Len(hist) = 2
     /\ hist[1].cmd \in {"rmrf", "bkup_rmrf"}
     /\ hist[1].ok
     /\ NoLinkTargets(hist[1].pre, hist[1].targets)
     /\ hist[2].cmd = "rcvr"
     /\ hist[2].ok
     /\ \A k \in 1..Len(hist[1].units) :
           \E i \in 1..Len(hist[2].targets) :
               ts_path_of(hist[2].targets[i]) = hist[1].units[k].base)
    => /\ \A q \in TargetTrees(hist[1].pre, hist[1].targets) :
             SameContent(hist[1].pre, fs, q)
       /\ \A k \in 1..Len(hist[1].units) : ~exists(fs, hist[1].units[k].base)

(* C4: when an archive invocation without elevation ends with privilege    *)
(* denied, the batch directory of the unit it was building holds nothing,  *)
(* no artifact and no metadata.yml, and every member of the unit is still  *)
(* where it was.                                                           *)
C4_PrivilegeDeniedLeavesNothing ==
    (/\ IsArchiveRun
     /\ pc = "failed"
     /\ err.kind = "privilege_denied"
     /\ ~cfg.sudo
     /\ units # <<>>)
    => LET u == units[Len(units)]
       IN  /\ Children(fs, u.base) = {}
           /\ ~exists(fs, MetaPath(u.base))
           /\ \A i \in 1..Len(u.members) : SameContent(snap, fs, u.members[i])

(* The artifacts of unit u are all in its batch directory: the copy of     *)
(* every archive file of a group, and the bundle of the other members.     *)
ArtifactsPresent(f, u) ==
    IF u.kind = "dir"
    THEN /\ exists(f, dir_tarball(u.base, u.members[1]))
         /\ f[dir_tarball(u.base, u.members[1])].data.tag = "tar"
    ELSE /\ \A i \in 1..Len(loose_of(u.members)) :
               exists(f, join(u.base, <<file_name(loose_of(u.members)[i])>>))
         /\ bundle_of(u.members) # <<>> =>
               /\ exists(f, group_tarball(u.base, bundle_of(u.members)))
               /\ f[group_tarball(u.base, bundle_of(u.members))].data.tag = "tar"

(* C6: in every state of an archive invocation, a batch directory that     *)
(* holds metadata.yml holds every artifact of its unit.                    *)
C6_MetadataOnlyAfterArtifacts ==
    IsArchiveRun =>
        \A k \in 1..Len(units) :
            exists(fs, MetaPath(units[k].base)) => ArtifactsPresent(fs, units[k])

MissingTargets ==
    {i \in 1..Len(inv.targets) : ~canonicalize(snap, inv.targets[i]).ok}

Archived(f, path) ==
    \E k \in 1..Len(units) :
        /\ units[k].built
        /\ \E i \in 1..Len(units[k].members) : units[k].members[i] = path
        /\ HasMeta(f, units[k].base)

(* C7: when an archive invocation whose command line names a path that     *)
(* does not exist has ended, the error it reports names that path, and     *)
(* every target that exists has been archived into a complete batch.       *)
C7_MissingTargetDoesNotAbort ==
    (/\ IsArchiveRun
     /\ pc \in {"done", "failed"}
     /\ MissingTargets # {}
     /\ err.kind \in {"none", "not_found"})
    => /\ err.kind = "not_found"
       /\ \E i \in MissingTargets : err.path = inv.targets[i]
       /\ \A i \in 1..Len(inv.targets) :
             i \notin MissingTargets
                 => Archived(fs, canonicalize(snap, inv.targets[i]).path)

BuildErrors == {"privilege_denied", "cp_failed", "tar_failed"}

(* C8: when an archive invocation has ended because the build of one unit  *)
(* failed, every unit of the invocation has been started and every unit    *)
(* but the failing one is built, with its metadata.yml and its artifacts   *)
(* in its batch directory.                                                 *)
C8_FailedUnitDoesNotAbortSiblings ==
    (/\ IsArchiveRun
     /\ pc = "failed"
     /\ err.kind \in BuildErrors)
    => /\ Len(units) = Len(cats.groups) + Len(cats.directories)
       /\ \A k \in 1..Len(units) :
             ~units[k].built =>
                 \A j \in 1..Len(units) : (j # k => units[j].built)
       /\ \A k \in 1..Len(units) :
             units[k].built =>
                 HasMeta(fs, units[k].base) /\ ArtifactsPresent(fs, units[k])

LoadErrors == {"canonicalizing", "opening_metadata", "parsing_metadata"}

(* A batch a finished archive invocation built completely. *)
BuiltBatch(b) ==
    \E h \in 1..Len(hist) : \E k \in 1..Len(hist[h].units) :
        /\ hist[h].cmd \in ArchiveCmds
        /\ hist[h].units[k].base = b
        /\ hist[h].units[k].built

(* C10: when a recovery has ended because a listed batch could not be      *)
(* located or its metadata.yml could not be loaded, every other listed     *)
(* batch that was built completely and was in the store when the recovery  *)
(* started has been recovered: its batch directory is gone.                *)
C10_LoadFailureConfinedToBatch ==
    (/\ inv.cmd = "rcvr"
     /\ pc = "failed"
     /\ err.kind \in LoadErrors)
    => \A j \in 1..Len(inv.targets) :
          LET b == ts_path_of(inv.targets[j])
          IN  (/\ j # idx + 1
               /\ b # ts_path_of(inv.targets[idx + 1])
               /\ HasMeta(snap, b)
               /\ BuiltBatch(b))
              => ~exists(fs, b)

(* C5: the units of one invocation have pairwise distinct batch            *)
(* directories, and the metadata.yml in the batch directory of a built     *)
(* unit is the one written for that unit.                                  *)
C5_BatchIdsDistinct ==
    IsArchiveRun =>
        /\ \A j, k \in 1..Len(units) : j # k => units[j].base # units[k].base
        /\ \A k \in 1..Len(units) :
              (units[k].built /\ HasMeta(fs, units[k].base))
                  => fs[MetaPath(units[k].base)].data.targets
                        = target_names(units[k].members)

FileTargets ==
    {canonicalize(snap, inv.targets[i]).path :
        i \in {j \in 1..Len(inv.targets) :
                  /\ canonicalize(snap, inv.targets[j]).ok
                  /\ ~is_dir(snap, canonicalize(snap, inv.targets[j]).path)}}

DirTargetCount ==
    Cardinality({j \in 1..Len(inv.targets) :
                    /\ canonicalize(snap, inv.targets[j]).ok
                    /\ is_dir(snap, canonicalize(snap, inv.targets[j]).path)})

NewBatches ==
    Children(fs, StoreOf(inv.cmd)) \ Children(snap, StoreOf(inv.cmd))

(* C3: when an archive invocation has ended well, it has made one batch    *)
(* directory for each parent directory of its non-directory targets and    *)
(* one more for each directory target, and for every parent directory      *)
(* exactly one of the batches holds a metadata.yml with that cwd, which    *)
(* lists the names of all the targets in that directory.                   *)
C3_Grouping ==
    (IsArchiveRun /\ pc = "done")
    => /\ Cardinality(NewBatches)
             = Cardinality({parent(t) : t \in FileTargets}) + DirTargetCount
       /\ \A d \in {parent(t) : t \in FileTargets} :
             \E b \in NewBatches :
                /\ HasMeta(fs, b)
                /\ fs[MetaPath(b)].data.cwd = d
                /\ {file_name(t) : t \in {x \in FileTargets : parent(x) = d}}
                      = SeqToSet(fs[MetaPath(b)].data.targets)
                /\ \A c \in NewBatches :
                      (HasMeta(fs, c) /\ fs[MetaPath(c)].data.cwd = d
                          /\ SeqToSet(fs[MetaPath(c)].data.targets)
                                \subseteq {file_name(t) : t \in FileTargets})
                         => c = b

---------------------------------------------------------------------------
(* recover: the two ways an entry of a batch is restored *)

NamedByTargets(e, originals) ==
    \E i \in 1..Len(originals) : originals[i] = file_name(e)

(* C11: while recover works on a batch, the entries still to be copied and *)
(* the entries still to be extracted are disjoint sets of entries of the   *)
(* batch directory other than metadata.yml; an entry waits to be copied    *)
(* only if its base name is one of the recorded targets, and waits to be   *)
(* extracted only if it is none of them; and every entry that waits for    *)
(* neither has been restored below cwd by the method of its kind.          *)
C11_RecoverPartition ==
    (inv.cmd = "rcvr" /\ pc \in {"r_extract", "r_copy", "r_remove"}) =>
        LET originals == fs[MetaPath(rcv.ts_dir)].data.targets
            entries == BatchEntries(fs, rcv.ts_dir)
        IN  /\ rcv.to_copy \cap rcv.to_extract = {}
            /\ (rcv.to_copy \cup rcv.to_extract) \subseteq entries
            /\ MetaPath(rcv.ts_dir) \notin (rcv.to_copy \cup rcv.to_extract)
            /\ \A e \in rcv.to_copy : NamedByTargets(e, originals)
            /\ \A e \in rcv.to_extract : ~NamedByTargets(e, originals)
            /\ \A e \in entries \ (rcv.to_copy \cup rcv.to_extract) :
                  RestoredEntry(fs, e, rcv.cwd, originals)

(* recover has copied one entry of a batch and extracted another, and is   *)
(* about to delete the batch directory.                                    *)
C11_Witness ==
    /\ inv.cmd = "rcvr"
    /\ pc = "r_remove"
    /\ rcv.to_copy = {}
    /\ rcv.to_extract = {}
    /\ \E e1, e2 \in BatchEntries(fs, rcv.ts_dir) :
          /\ NamedByTargets(e1, fs[MetaPath(rcv.ts_dir)].data.targets)
          /\ ~NamedByTargets(e2, fs[MetaPath(rcv.ts_dir)].data.targets)
          /\ fs[e2].data.tag = "tar"

---------------------------------------------------------------------------
(* cleanup: what a sweep deletes *)

(* The batch directories the store held when the invocation started. *)
OldBatches == {b \in Children(snap, rmrf_path) : snap[b].kind = "dir"}

(* Age strictly above the retention, in seconds. *)
AgeEligible(b) == now - snap[b].mtime > cfg.keep * DaySecs

Gone(b) == Under(fs, b) = {}

Kept(b) == \A q \in Under(snap, b) : exists(fs, q) /\ fs[q] = snap[q]

(* Age of the batches the invocation made itself, strictly above the       *)
(* retention.                                                              *)
OwnEligible == now - inv.at > cfg.keep * DaySecs

(* C12: when an invocation that sweeps the store has ended without error,  *)
(* every batch directory of the store whose age is strictly above          *)
(* keep * 86400 seconds is gone with its whole tree, and every other one   *)
(* is there with its contents unchanged; this for the batches the store    *)
(* held before and for those the invocation made itself.                   *)
C12_SweepDeletesExactlyExpired ==
    (inv.cmd = "rmrf" /\ pc = "done") =>
        /\ \A b \in OldBatches : IF AgeEligible(b) THEN Gone(b) ELSE Kept(b)
        /\ \A k \in 1..Len(units) :
              IF OwnEligible THEN Gone(units[k].base)
              ELSE HasMeta(fs, units[k].base)

(* A sweep with the default retention has ended well: it deleted a batch   *)
(* older than 30 days and kept the batch that is exactly 30 days old, the  *)
(* batch of this second and the batch it made itself.                      *)
C12_Witness ==
    /\ inv.cmd = "rmrf"
    /\ pc = "done"
    /\ cfg.keep = DefaultKeep
    /\ now = SweepNow
    /\ Gone(OldB)
    /\ Kept(EdgeB)
    /\ Kept(NewB)
    /\ units # <<>>

(* The invocation ended with an error met while sweeping entry err.path. *)
SweepFailed ==
    /\ inv.cmd = "rmrf"
    /\ pc = "failed"
    /\ err.kind \in {"rm_failed", "io", "not_found"}
    /\ parent(err.path) = rmrf_path

(* C13: when a sweep has met an error at one entry of the store, every     *)
(* other batch directory that is age-eligible and belongs to the invoking  *)
(* user has been deleted all the same.                                     *)
C13_SweepBestEffort ==
    SweepFailed =>
        \A b \in OldBatches :
            (b # err.path /\ AgeEligible(b) /\ snap[b].uid = Me) => Gone(b)

(* Invocation h got as far as the sweep: it ended well, or with an error   *)
(* met at an entry of the store.                                           *)
Swept(h) ==
    \/ h.ok
    \/ /\ h.err.kind \in {"rm_failed", "io", "not_found"}
       /\ parent(h.err.path) = rmrf_path

SecondSweepAtOnce ==
    /\ Len(hist) = 2
    /\ pc \in {"done", "failed"}
    /\ hist[1].cmd = "rmrf"
    /\ Swept(hist[1])
    /\ Swept(hist[2])
    /\ hist[2].cmd = "rmrf"
    /\ hist[2].targets = <<>>
    /\ hist[2].at = hist[1].at

C15_ForeignBatchSkipped ==
    (/\ inv.cmd = "rmrf"
     /\ ~cfg.sudo
     /\ pc = "done" \/ SweepFailed
     /\ \E b \in OldBatches : AgeEligible(b) /\ snap[b].uid # Me)
    => /\ pc = "done"
       /\ \A b \in OldBatches :
             AgeEligible(b) => IF snap[b].uid # Me THEN Kept(b) ELSE Gone(b)

---------------------------------------------------------------------------
(* archive: what is archived and what is removed *)

(* The absolute paths the command line names, as given. *)
RawTargets == {join(current_cwd, inv.targets[i]) : i \in 1..Len(inv.targets)}

StoreTargeted == StoreOf(inv.cmd) \in CanonTargets

(* C16: in an archive invocation whose command line names the destination  *)
(* root, no unit has the destination root as a member and nothing is       *)
(* created or deleted at or below the destination root.                    *)
C16_StoreTargetRejected ==
    (IsArchiveRun /\ StoreTargeted) =>
        /\ \A k \in 1..Len(units) : \A i \in 1..Len(units[k].members) :
              units[k].members[i] # StoreOf(inv.cmd)
        /\ Under(fs, StoreOf(inv.cmd)) = Under(snap, StoreOf(inv.cmd))

(* C17: every member of every unit of an archive invocation is a path the  *)
(* command line names, so that for a symbolic link the member, and with it *)
(* the recorded cwd and name, is the link itself and not what it points to.*)
C17_LinkArchivedAsLink ==
    IsArchiveRun =>
        \A k \in 1..Len(units) : \A i \in 1..Len(units[k].members) :
            units[k].members[i] \in RawTargets

(* Every file below directory d is an already-compressed file. *)
OnlyCompressed(f, d) ==
    /\ \E q \in Under(f, d) : f[q].kind = "file"
    /\ \A q \in Under(f, d) : f[q].kind = "file" => is_archive(q)

(* C18: when the unit of a directory that holds only already-compressed    *)
(* files has been built, its batch directory holds metadata.yml and no     *)
(* bundle.                                                                 *)
C18_CompressedDirectoryNoBundle ==
    IsArchiveRun =>
        \A k \in 1..Len(units) :
            (/\ units[k].kind = "dir"
             /\ units[k].built
             /\ OnlyCompressed(snap, units[k].members[1]))
            => /\ HasMeta(fs, units[k].base)
               /\ Children(fs, units[k].base) = {MetaPath(units[k].base)}

(* C19: in every state of a bkup invocation, each target that existed when *)
(* it started is there with everything below it as it was and with        *)
(* nothing added below it; and when the invocation has ended well, every   *)
(* unit has its batch under the backup root.                               *)
C19_BackupLeavesTargets ==
    inv.cmd = "bkup" =>
        /\ \A t \in RawTargets :
              exists(snap, t) =>
                  /\ Under(fs, t) = Under(snap, t)
                  /\ \A q \in Under(snap, t) : SameContent(snap, fs, q)
        /\ pc = "done" =>
              \A k \in 1..Len(units) :
                  /\ parent(units[k].base) = bkup_path
                  /\ HasMeta(fs, units[k].base)

DistinctTargets ==
    \A i, j \in 1..Len(inv.targets) : i # j => inv.targets[i] # inv.targets[j]

(* C20: when a removing invocation over distinct existing targets, none of *)
(* them a store of rkvr, has built every unit and has ended, it has ended  *)
(* without error and none of the targets exists.                           *)
C20_RemovalAfterArchive ==
    (/\ inv.cmd \in {"rmrf", "bkup_rmrf"}
     /\ pc \in {"done", "failed"}
     /\ inv.targets # <<>>
     /\ MissingTargets = {}
     /\ DistinctTargets
     /\ CanonTargets \cap {rmrf_path, bkup_path} = {}
     /\ Len(units) = Len(cats.groups) + Len(cats.directories)
     /\ \A k \in 1..Len(units) : units[k].built)
    => /\ pc = "done"
       /\ \A t \in RawTargets : ~exists(fs, t)

---------------------------------------------------------------------------
(* main: the command line without a subcommand *)

(* C21: an invocation with targets and no subcommand does what `rmrf`      *)
(* does with them: every batch it makes is in the remove store and nothing *)
(* changes in the backup store, and when it has ended without error the    *)
(* targets are gone and the remove store has been swept with the           *)
(* configured retention.                                                   *)
C21_DefaultIsRmrf ==
    inv.cmd = "default" =>
        /\ \A k \in 1..Len(units) : parent(units[k].base) = rmrf_path
        /\ Under(fs, bkup_path) = Under(snap, bkup_path)
        /\ pc = "done" =>
              /\ \A t \in RawTargets : ~exists(fs, t)
              /\ \A b \in OldBatches :
                    IF AgeEligible(b) THEN Gone(b) ELSE Kept(b)
              /\ \A k \in 1..Len(units) :
                    IF OwnEligible THEN Gone(units[k].base)
                    ELSE HasMeta(fs, units[k].base)

(* An invocation without a subcommand has ended well: it archived a file   *)
(* into the remove store, deleted it, and swept an old batch away.         *)
C21_Witness ==
    /\ inv.cmd = "default"
    /\ pc = "done"
    /\ inv.targets = <<ATxt>>
    /\ Len(units) = 1
    /\ HasMeta(fs, units[1].base)
    /\ ~exists(fs, ATxt)
    /\ Gone(OldB)
    /\ Kept(NewB)

---------------------------------------------------------------------------
(* create_metadata: when the listing cannot be had *)

(* C22: when the listing utility was not found while a unit's metadata was *)
(* being made, the invocation has not ended with that error: the batch     *)
(* directory of the unit holds a metadata.yml with an empty contents field *)
(* and every artifact of the unit.                                         *)
C22_ListingFailureDegrades ==
    (IsArchiveRun /\ err.kind = "eza_not_found" /\ units # <<>>) =>
        LET u == units[Len(units)]
        IN  /\ pc # "failed"
            /\ HasMeta(fs, u.base)
            /\ fs[MetaPath(u.base)].data.contents = {}
            /\ ArtifactsPresent(fs, u)

---------------------------------------------------------------------------
(* archive: batch identifiers of invocations that run at the same time *)

(* C23: while an archive invocation runs next to another one that was      *)
(* started a non-zero number of nanoseconds later against the same store,  *)
(* the batch directory it is about to make for a unit is not there yet,    *)
(* and the metadata.yml in the batch directory of each of its units is the *)
(* one it wrote itself.                                                    *)
C23_PeersNeverShareBatch ==
    IsArchiveRun =>
        /\ pc = "g_mkdir" => ~exists(fs, GroupBase)
        /\ pc = "d_mkdir" => ~exists(fs, DirBase)
        /\ \A k \in 1..Len(units) :
              exists(fs, MetaPath(units[k].base))
                  => fs[MetaPath(units[k].base)].data.cwd = units[k].cwd

---------------------------------------------------------------------------
(* recover: batches of the backup store *)

(* The first argument of the running rcvr is the bare identifier of a      *)
(* complete batch of the backup store, and the remove store has no batch   *)
(* of that name.                                                           *)
FirstIsBackupId ==
    /\ inv.cmd = "rcvr"
    /\ inv.targets # <<>>
    /\ ~is_absolute(inv.targets[1])
    /\ HasMeta(snap, join(bkup_path, inv.targets[1]))
    /\ ~exists(snap, join(rmrf_path, inv.targets[1]))

(* C24: when an rcvr given the identifier of a batch of the backup store   *)
(* has ended, it has not ended for want of finding the batch, and if it    *)
(* ended without error the batch is gone from the backup store.            *)
C24_RecoverFindsBackupBatch ==
    (FirstIsBackupId /\ pc \in {"done", "failed"}) =>
        /\ err.kind # "canonicalizing"
        /\ pc = "done" => Gone(join(bkup_path, inv.targets[1]))

---------------------------------------------------------------------------
(* tar_gz_files, archive_directory: the paths handed to tar *)

(* The path arguments of the tar the invocation is about to run, and the   *)
(* working directory given with them.                                      *)
TarCwd ==
    IF pc = "g_tar" THEN group_cwd(Group) ELSE dir_cwd(Directory)

TarArgs ==
    IF pc = "g_tar" THEN relative_targets(bundle_of(Group), group_cwd(Group))
    ELSE IF pc = "d_build" /\ has_parent(Directory)
    THEN <<relative_target(Directory, dir_cwd(Directory))>>
    ELSE <<>>

TarSources ==
    IF pc = "g_tar" THEN bundle_of(Group)
    ELSE IF pc = "d_build" /\ has_parent(Directory) THEN <<Directory>>
    ELSE <<>>

(* C25: every path an archive invocation is about to hand to tar, for a    *)
(* group and for a directory, is relative, and under the working directory *)
(* handed over with it names the member it stands for.                     *)
C25_TarPathsRelative ==
    IsArchiveRun =>
        \A i \in 1..Len(TarArgs) :
            /\ ~is_absolute(TarArgs[i])
            /\ join(TarCwd, TarArgs[i]) = TarSources[i]

(* tar is about to bundle a file that the command line named by an         *)
(* absolute path outside the current directory.                            *)
C25_Witness ==
    /\ IsArchiveRun
    /\ pc = "g_tar"
    /\ \E i \in 1..Len(TarSources) :
          /\ ~starts_with(TarSources[i], current_cwd)
          /\ \E j \in 1..Len(inv.targets) :
                is_absolute(inv.targets[j]) /\ inv.targets[j] = TarSources[i]

---------------------------------------------------------------------------
(* archive: the steps of a unit that needs elevation *)

(* Unit u was built with elevation: a member belongs to another user and   *)
(* the configuration permits sudo.                                         *)
BuiltElevated(u) ==
    /\ u.built
    /\ cfg.sudo
    /\ group_need_sudo(snap, u.members)

(* C26: an archive invocation never ends because a step run directly, as   *)
(* the invoking user, was refused at a member of a unit that was built     *)
(* with elevation.                                                         *)
C26_ElevatedUnitNeverDirect ==
    ~ /\ IsArchiveRun
      /\ pc = "failed"
      /\ err.kind = "io"
      /\ \E k \in 1..Len(units) :
            /\ BuiltElevated(units[k])
            /\ \E i \in 1..Len(units[k].members) : units[k].members[i] = err.path

---------------------------------------------------------------------------
(* archive_group: the artifacts of a group *)

CopyOf(u, m) == join(u.base, <<file_name(m)>>)

CopyNames(u) ==
    {CopyOf(u, loose_of(u.members)[i]) : i \in 1..Len(loose_of(u.members))}

BundleNames(u) ==
    IF bundle_of(u.members) = <<>> THEN {}
    ELSE {group_tarball(u.base, bundle_of(u.members))}

(* The batch of unit u is as archive_group left it: nothing has removed    *)
(* or swept it since.                                                      *)
JustBuilt(u) ==
    /\ u.kind = "group"
    /\ u.built
    /\ inv.cmd = "bkup" \/ pc \notin {"cleanup", "c_entry", "done", "failed"}

(* C27: the batch directory of a built group holds, next to metadata.yml,  *)
(* a copy of every member with an archive extension under the member's own *)
(* name and with its content, and, if and only if other members remain,    *)
(* one bundle <parent>.tar.gz that holds exactly those; nothing else.      *)
C27_GroupPartition ==
    IsArchiveRun =>
        \A k \in 1..Len(units) :
            JustBuilt(units[k]) =>
                LET u == units[k]
                    loose == loose_of(u.members)
                    bundle == bundle_of(u.members)
                IN  /\ Children(fs, u.base)
                          = {MetaPath(u.base)} \cup CopyNames(u) \cup BundleNames(u)
                    /\ \A i \in 1..Len(loose) :
                          /\ exists(fs, CopyOf(u, loose[i]))
                          /\ fs[CopyOf(u, loose[i])].data
                                = snap[follow(snap, loose[i])].data
                    /\ \A t \in BundleNames(u) :
                          /\ fs[t].data.tag = "tar"
                          /\ DOMAIN fs[t].data.members
                                = {<<file_name(bundle[i])>> : i \in 1..Len(bundle)}

(* C29: in the batch directory of a group the bundle and the copies have   *)
(* different names, so that no artifact is written over another.           *)
C29_NoArtifactOverwritten ==
    IsArchiveRun =>
        \A k \in 1..Len(units) :
            units[k].kind = "group" =>
                CopyNames(units[k]) \cap BundleNames(units[k]) = {}

---------------------------------------------------------------------------
(* archive: removal comes last *)

AllUnitsBuilt ==
    /\ Len(units) = Len(cats.groups) + Len(cats.directories)
    /\ \A k \in 1..Len(units) : units[k].built

(* The step takes away an entry at or below a target of the command line. *)
DeletesTarget ==
    \E q \in TargetTrees(snap, inv.targets) : exists(fs, q) /\ ~exists(fs', q)

(* C28: a step of a removing invocation that takes away an entry at or     *)
(* below one of its targets is taken by remove_targets, after every group  *)
(* and every directory of the invocation has been built; so an invocation  *)
(* that fails in categorization or in a build leaves every target there.   *)
C28_RemovalOnlyAfterAllArchived ==
    [][(RemoveOf(inv.cmd) /\ inv' = inv /\ DeletesTarget)
          => (pc = "remove" /\ AllUnitsBuilt)]_vars

(* A removing invocation over a file and a directory has archived both     *)
(* and then deleted both.                                                  *)
C28_Witness ==
    /\ RemoveOf(inv.cmd)
    /\ pc = "done"
    /\ Len(cats.groups) = 1
    /\ Len(cats.directories) = 1
    /\ AllUnitsBuilt
    /\ \A t \in RawTargets : ~exists(fs, t)

---------------------------------------------------------------------------
(* cleanup: the batches of the invocation that sweeps *)

(* C30: when a removing invocation that sweeps has ended without error,    *)
(* every batch it made is still in the remove store, whatever the          *)
(* retention.                                                              *)
C30_SweepKeepsOwnBatches ==
    (HasKeep(inv.cmd) /\ pc = "done") =>
        \A k \in 1..Len(units) : HasMeta(fs, units[k].base)

=============================================================================
